---- MODULE Spec2Model ----
(***************************************************************************)
(* Project resource endpoints of the portfolio API: the bearer-token gate, *)
(* the multer upload filter, the express-validator rule chains, the        *)
(* normalisation helpers and the five route handlers, over a document      *)
(* store of Project records.                                               *)
(*                                                                         *)
(* Strings are sequences of one-character strings, so that trim, split,    *)
(* length, prefix and case-folding are computed character by character.    *)
(* A JavaScript value is a record [t, s, n, b, a]: t is its type tag, and  *)
(* s, n, b, a carry the string, number, boolean or array payload.          *)
(***************************************************************************)
EXTENDS Integers, Sequences, FiniteSets, TLC

\* ------------------------------------------------------------ JS values

Undef == [t |-> "undefined", s |-> <<>>, n |-> 0, b |-> FALSE, a |-> <<>>]

Null == [t |-> "null", s |-> <<>>, n |-> 0, b |-> FALSE, a |-> <<>>]

NaN == [t |-> "nan", s |-> <<>>, n |-> 0, b |-> FALSE, a |-> <<>>]

Str(x) == [t |-> "string", s |-> x, n |-> 0, b |-> FALSE, a |-> <<>>]

Num(x) == [t |-> "number", s |-> <<>>, n |-> x, b |-> FALSE, a |-> <<>>]

Bool(x) == [t |-> "boolean", s |-> <<>>, n |-> 0, b |-> x, a |-> <<>>]

Arr(x) == [t |-> "array", s |-> <<>>, n |-> 0, b |-> FALSE, a |-> x]

\* typeof v === "string", Array.isArray(v), typeof v === "boolean"
IsString(v) == v.t = "string"

IsArray(v) == v.t = "array"

IsBoolean(v) == v.t = "boolean"

\* Number.isFinite(v): a number that is not NaN
IsFiniteNumber(v) == v.t = "number"

\* Boolean(v): "", 0, NaN, null, undefined and false are falsy
Truthy(v) ==
    CASE v.t = "undefined" -> FALSE
      [] v.t = "null" -> FALSE
      [] v.t = "nan" -> FALSE
      [] v.t = "string" -> v.s # <<>>
      [] v.t = "number" -> v.n # 0
      [] v.t = "boolean" -> v.b
      [] OTHER -> TRUE

\* ------------------------------------------------------------ strings

IsSpace(c) == c = " "

RECURSIVE TrimStart(_)
TrimStart(s) ==
    IF s # <<>> /\ IsSpace(Head(s)) THEN TrimStart(Tail(s)) ELSE s

RECURSIVE TrimEnd(_)
TrimEnd(s) ==
    IF s # <<>> /\ IsSpace(s[Len(s)]) THEN TrimEnd(SubSeq(s, 1, Len(s) - 1)) ELSE s

\* String.prototype.trim
Trim(s) == TrimEnd(TrimStart(s))

\* String.prototype.split(","): the segments between the commas
RECURSIVE SplitFrom(_, _, _)
SplitFrom(s, i, cur) ==
    IF i > Len(s) THEN <<cur>>
    ELSE IF s[i] = "," THEN <<cur>> \o SplitFrom(s, i + 1, <<>>)
    ELSE SplitFrom(s, i + 1, Append(cur, s[i]))

Split(s) == SplitFrom(s, 1, <<>>)

Digits == <<"0", "1", "2", "3", "4", "5", "6", "7", "8", "9">>

DigitVal(c) == (CHOOSE i \in 1..10 : Digits[i] = c) - 1

IsDigit(c) == \E i \in 1..10 : Digits[i] = c

\* decimal text of a natural number
RECURSIVE NatStr(_)
NatStr(n) ==
    IF n < 10 THEN <<Digits[n + 1]>> ELSE Append(NatStr(n \div 10), Digits[(n % 10) + 1])

NumStr(n) == IF n < 0 THEN <<"-">> \o NatStr(-n) ELSE NatStr(n)

\* String(v) of a scalar
JsString(v) ==
    CASE v.t = "string" -> v.s
      [] v.t = "number" -> NumStr(v.n)
      [] v.t = "boolean" -> (IF v.b THEN <<"t", "r", "u", "e">> ELSE <<"f", "a", "l", "s", "e">>)
      [] v.t = "null" -> <<"n", "u", "l", "l">>
      [] v.t = "nan" -> <<"N", "a", "N">>
      [] OTHER -> <<"u", "n", "d", "e", "f", "i", "n", "e", "d">>

Upper == <<"A", "B", "C", "D", "E", "F", "G", "H", "I", "J", "K", "L", "M", "N", "O", "P", "Q", "R", "S", "T", "U", "V", "W", "X", "Y", "Z">>

Lower == <<"a", "b", "c", "d", "e", "f", "g", "h", "i", "j", "k", "l", "m", "n", "o", "p", "q", "r", "s", "t", "u", "v", "w", "x", "y", "z">>

LowerChar(c) ==
    IF \E i \in 1..26 : Upper[i] = c THEN Lower[CHOOSE i \in 1..26 : Upper[i] = c] ELSE c

ToLower(s) == [i \in 1..Len(s) |-> LowerChar(s[i])]

StartsWith(s, p) == Len(s) >= Len(p) /\ SubSeq(s, 1, Len(p)) = p

\* s contains p as a contiguous substring
Contains(s, p) ==
    \E i \in 0..(Len(s) - Len(p)) : SubSeq(s, i + 1, i + Len(p)) = p

\* ------------------------------------------------------------ auth gate

BearerPrefix == <<"B", "e", "a", "r", "e", "r", " ">>

\* the tokens jwt.verify accepts under the configured secret
ValidTokens == {<<"g", "o", "o", "d">>}

jwtVerify(token) == token \in ValidTokens

Response(status, message) == [status |-> status, message |-> message]

\* verifyToken without the jwt.verify call: any non-empty bearer token passes
verifyTokenUnverified(authorization) ==
    IF StartsWith(authorization, BearerPrefix) /\ Len(authorization) > Len(BearerPrefix)
    THEN Response(0, "next")
    ELSE Response(401, "Token manquant")

\* verifyToken: a missing or empty bearer token, or one jwt.verify rejects, ends
\* the request with 401; otherwise next() is called (status 0: no response yet)
verifyToken(authorization) ==
    LET token == IF StartsWith(authorization, BearerPrefix)
                 THEN Str(SubSeq(authorization, Len(BearerPrefix) + 1, Len(authorization)))
                 ELSE Null
    IN  IF ~Truthy(token) THEN Response(401, "Token manquant")
        ELSE IF jwtVerify(token.s) THEN Response(0, "next")
        ELSE Response(401, "Token invalide")

\* ------------------------------------------------------------ upload (multer)

NoFile == [present |-> FALSE, mimetype |-> <<>>, size |-> 0, buffer |-> <<>>]

File(mimetype, size, buffer) ==
    [present |-> TRUE, mimetype |-> mimetype, size |-> size, buffer |-> buffer]

\* limits.fileSize
FileSizeLimit == 4 * 1024 * 1024

\* the filter without its subtype alternatives: /^image\//i
MimeRegexTestAnyImage(mimetype) == StartsWith(ToLower(mimetype), <<"i", "m", "a", "g", "e", "/">>)

\* /^image\/(jpe?g|png|webp)$/i
MimeRegexTest(mimetype) ==
    ToLower(mimetype) \in {<<"i", "m", "a", "g", "e", "/", "j", "p", "e", "g">>, <<"i", "m", "a", "g", "e", "/", "j", "p", "g">>, <<"i", "m", "a", "g", "e", "/", "p", "n", "g">>, <<"i", "m", "a", "g", "e", "/", "w", "e", "b", "p">>}

fileFilter(file) == MimeRegexTest(file.mimetype)

\* upload.single("image"): "none" without a file part, "ok" when the file is
\* kept in memory as req.file, otherwise the error handed to next(err)
upload(file) ==
    IF ~file.present THEN "none"
    ELSE IF ~fileFilter(file) THEN "Format image invalide (JPEG/PNG/WebP)"
    ELSE IF file.size > FileSizeLimit THEN "File too large"
    ELSE "ok"

\* the application's error middleware: err.status || 500; neither the filter's
\* Error nor a MulterError carries a status
errorHandler(message) == Response(500, message)

B64 == <<"A", "B", "C", "D", "E", "F", "G", "H", "I", "J", "K", "L", "M", "N", "O", "P", "Q", "R", "S", "T", "U", "V", "W", "X", "Y", "Z", "a", "b", "c", "d", "e", "f", "g", "h", "i", "j", "k", "l", "m", "n", "o", "p", "q", "r", "s", "t", "u", "v", "w", "x", "y", "z", "0", "1", "2", "3", "4", "5", "6", "7", "8", "9", "+", "/">>

\* Buffer.toString("base64")
RECURSIVE Base64(_)
Base64(bytes) ==
    IF bytes = <<>> THEN <<>>
    ELSE IF Len(bytes) = 1 THEN
        LET n == bytes[1] * 65536
        IN  <<B64[(n \div 262144) + 1], B64[((n \div 4096) % 64) + 1], "=", "=">>
    ELSE IF Len(bytes) = 2 THEN
        LET n == bytes[1] * 65536 + bytes[2] * 256
        IN  <<B64[(n \div 262144) + 1], B64[((n \div 4096) % 64) + 1],
              B64[((n \div 64) % 64) + 1], "=">>
    ELSE
        LET n == bytes[1] * 65536 + bytes[2] * 256 + bytes[3]
        IN  <<B64[(n \div 262144) + 1], B64[((n \div 4096) % 64) + 1],
              B64[((n \div 64) % 64) + 1], B64[(n % 64) + 1]>>
            \o Base64(SubSeq(bytes, 4, Len(bytes)))

DataPrefix == <<"d", "a", "t", "a", ":">>

Base64Marker == <<";", "b", "a", "s", "e", "6", "4", ",">>

\* bufferToDataUrl: null without a buffer, else data:<mime>;base64,<payload>
\* with the declared mimetype (image/jpeg when it is empty)
bufferToDataUrl(file) ==
    IF ~file.present THEN Null
    ELSE LET mime == IF file.mimetype # <<>> THEN file.mimetype ELSE <<"i", "m", "a", "g", "e", "/", "j", "p", "e", "g">>
         IN  Str(DataPrefix \o mime \o Base64Marker \o Base64(file.buffer))

\* ------------------------------------------------------------ normalizeTech

\* Array.prototype.filter(Boolean)
RECURSIVE FilterBoolean(_)
FilterBoolean(q) ==
    IF q = <<>> THEN <<>>
    ELSE IF Truthy(Head(q)) THEN <<Head(q)>> \o FilterBoolean(Tail(q))
    ELSE FilterBoolean(Tail(q))

normalizeTech(value) ==
    IF IsArray(value)
    THEN Arr(FilterBoolean([i \in 1..Len(value.a) |-> Str(Trim(JsString(value.a[i])))]))
    ELSE IF IsString(value)
    THEN LET parts == Split(value.s)
         IN  Arr(FilterBoolean([i \in 1..Len(parts) |-> Str(Trim(parts[i]))]))
    ELSE Arr(<<>>)

\* ------------------------------------------------------------ validators

\* express-validator's toString: "" for null, undefined and NaN, the first
\* element for a non-empty array, String(value) otherwise
ToStr(v) ==
    CASE v.t \in {"undefined", "null", "nan"} -> <<>>
      [] v.t = "array" -> (IF v.a = <<>> THEN <<>> ELSE JsString(v.a[1]))
      [] OTHER -> JsString(v)

\* validator.toBoolean(str), not strict
toBoolean(s) == s # <<"0">> /\ ToLower(s) # <<"f", "a", "l", "s", "e">> /\ s # <<>>

\* parseInt(str, 10): leading blanks, an optional sign, then the digits
RECURSIVE DigitsValue(_, _)
DigitsValue(s, acc) ==
    IF s # <<>> /\ IsDigit(Head(s)) THEN DigitsValue(Tail(s), acc * 10 + DigitVal(Head(s)))
    ELSE acc

parseInt(str) ==
    LET s == TrimStart(str)
        neg == s # <<>> /\ Head(s) = "-"
        body == IF s # <<>> /\ Head(s) \in {"-", "+"} THEN Tail(s) ELSE s
    IN  IF body = <<>> \/ ~IsDigit(Head(body)) THEN NaN
        ELSE Num(IF neg THEN -DigitsValue(body, 0) ELSE DigitsValue(body, 0))

\* validator.isURL with its defaults, reduced to: an optional http:// or
\* https:// scheme, then a host without blanks that has a dot between two
\* non-empty labels
isURL(str) ==
    LET rest == IF StartsWith(str, <<"h", "t", "t", "p", ":", "/", "/">>) THEN SubSeq(str, 8, Len(str))
                ELSE IF StartsWith(str, <<"h", "t", "t", "p", "s", ":", "/", "/">>) THEN SubSeq(str, 9, Len(str))
                ELSE str
    IN  /\ \A i \in 1..Len(rest) : ~IsSpace(rest[i])
        /\ \E i \in 2..(Len(rest) - 1) : rest[i] = "."
        /\ rest # <<>> /\ rest[1] # "." /\ rest[Len(rest)] # "."

HexChars == <<"0", "1", "2", "3", "4", "5", "6", "7", "8", "9", "a", "b", "c", "d", "e", "f", "A", "B", "C", "D", "E", "F">>

\* validator.isMongoId: 24 hexadecimal characters
isMongoId(str) ==
    Len(str) = 24 /\ \A i \in 1..Len(str) : \E j \in 1..Len(HexChars) : HexChars[j] = str[i]

TitleMin == 2

TitleMax == 120

DescriptionMin == 10

DescriptionMax == 3000

Ok(v) == [errors |-> <<>>, value |-> v]

\* optional(): the chain is skipped when the field is undefined
\* isString().trim().isLength({min, max}): both validators report, the
\* sanitizer rewrites the field
StringChain(path, v, optional, min, max) ==
    IF optional /\ v = Undef THEN Ok(v)
    ELSE LET e1 == IF IsString(v) THEN <<>> ELSE <<path>>
             v1 == Str(Trim(ToStr(v)))
             e2 == IF Len(v1.s) >= min /\ Len(v1.s) <= max THEN <<>> ELSE <<path>>
         IN  [errors |-> e1 \o e2, value |-> v1]

\* optional({checkFalsy: true}).customSanitizer(normalizeTech)
TechChain(v) == IF ~Truthy(v) THEN Ok(v) ELSE Ok(normalizeTech(v))

\* optional({checkFalsy: true}).isURL()
UrlChain(path, v) ==
    IF ~Truthy(v) THEN Ok(v)
    ELSE [errors |-> IF isURL(ToStr(v)) THEN <<>> ELSE <<path>>, value |-> v]

\* optional().toBoolean()
FeaturedChain(v) == IF v = Undef THEN Ok(v) ELSE Ok(Bool(toBoolean(ToStr(v))))

\* optional().toInt()
OrderChain(v) == IF v = Undef THEN Ok(v) ELSE Ok(parseInt(ToStr(v)))

\* param("id").isMongoId()
IdChain(id) == IF isMongoId(id) THEN <<>> ELSE <<"id">>

\* the body rules shared by createRules and updateRules; the title and
\* description chains are optional() in updateRules only
BodyRules(body, optional) ==
    LET t == StringChain("title", body.title, optional, TitleMin, TitleMax)
        d == StringChain("description", body.description, optional,
                         DescriptionMin, DescriptionMax)
        k == TechChain(body.tech)
        g == UrlChain("githubUrl", body.githubUrl)
        m == UrlChain("demoUrl", body.demoUrl)
        f == FeaturedChain(body.featured)
        o == OrderChain(body.order)
    IN  [errors |-> t.errors \o d.errors \o k.errors \o g.errors \o m.errors
                    \o f.errors \o o.errors,
         body |-> [title |-> t.value, description |-> d.value, tech |-> k.value,
                   githubUrl |-> g.value, demoUrl |-> m.value,
                   featured |-> f.value, order |-> o.value]]

createRules(body) == BodyRules(body, FALSE)

updateRules(id, body) ==
    LET r == BodyRules(body, TRUE)
    IN  [errors |-> IdChain(id) \o r.errors, body |-> r.body]

\* handleValidation whose result the handler does not return on
handleValidationIgnored(errors) == Response(0, "next")

\* handleValidation: a 400 response when validationResult(req) is not empty
handleValidation(errors) ==
    IF errors # <<>> THEN Response(400, "Validation error") ELSE Response(0, "next")

\* ------------------------------------------------------------ Project records

BodyFields == {"title", "description", "tech", "githubUrl", "demoUrl", "featured", "order"}

EmptyBody ==
    [title |-> Undef, description |-> Undef, tech |-> Undef, githubUrl |-> Undef,
     demoUrl |-> Undef, featured |-> Undef, order |-> Undef]

\* the placeholder for "no document"
NoDoc ==
    [title |-> <<>>, description |-> <<>>, tech |-> <<>>, githubUrl |-> <<>>,
     demoUrl |-> <<>>, featured |-> FALSE, order |-> 0, coverImage |-> Null,
     createdAt |-> 0]

\* the schema's tech path, an array of strings: an array is cast element by
\* element, null or undefined gives the empty default, any other value is
\* wrapped into a one-element array
SchemaTech(v) ==
    IF IsArray(v) THEN [i \in 1..Len(v.a) |-> JsString(v.a[i])]
    ELSE IF v.t \in {"null", "undefined"} THEN <<>>
    ELSE <<JsString(v)>>

\* the schema's order path, a number: NaN is a cast error
SchemaOrderOk(v) == v.t # "nan"

\* the 24 hexadecimal characters of the n-th identifier the store assigns
ObjectId(n) == [i \in 1..24 |-> IF i = 24 THEN Digits[n + 1] ELSE "0"]

\* Project.findById
findById(st, id) == IF id \in DOMAIN st THEN st[id] ELSE NoDoc

Found(st, id) == id \in DOMAIN st

\* Project.create: the new document under a fresh identifier
create(st, id, doc) == [i \in DOMAIN st \cup {id} |-> IF i = id THEN doc ELSE st[i]]

\* Project.findByIdAndDelete
findByIdAndDelete(st, id) == [i \in DOMAIN st \ {id} |-> st[i]]

\* save() as a write of the whole document held by the request
saveWhole(st, id, doc, modified) == IF id \in DOMAIN st THEN [st EXCEPT ![id] = doc] ELSE st

\* save() as an upsert: a document that is no longer stored is inserted again
saveUpsert(st, id, doc, modified) ==
    IF id \in DOMAIN st
    THEN [st EXCEPT ![id] = [f \in DOMAIN doc |-> IF f \in modified THEN doc[f] ELSE @[f]]]
    ELSE [i \in DOMAIN st \cup {id} |-> IF i = id THEN doc ELSE st[i]]

\* proj.save(): the assigned paths are written to the stored document of that
\* id; a document that is no longer stored is not written back
save(st, id, doc, modified) ==
    IF id \in DOMAIN st
    THEN [st EXCEPT ![id] = [f \in DOMAIN doc |-> IF f \in modified THEN doc[f] ELSE @[f]]]
    ELSE st

\* the sort with createdAt ascending: {featured: -1, order: 1, createdAt: 1}
BeforeOldestFirst(d1, d2) ==
    \/ d1.featured /\ ~d2.featured
    \/ d1.featured = d2.featured /\ d1.order < d2.order
    \/ d1.featured = d2.featured /\ d1.order = d2.order /\ d1.createdAt < d2.createdAt

\* sort({featured: -1, order: 1, createdAt: -1}): d1 sorts strictly before d2
Before(d1, d2) ==
    \/ d1.featured /\ ~d2.featured
    \/ d1.featured = d2.featured /\ d1.order < d2.order
    \/ d1.featured = d2.featured /\ d1.order = d2.order /\ d1.createdAt > d2.createdAt

\* insert id into a sorted sequence of ids, after the entries it does not precede
RECURSIVE SortedInsert(_, _, _)
SortedInsert(st, q, id) ==
    IF q = <<>> THEN <<id>>
    ELSE IF Before(st[id], st[Head(q)]) THEN <<id>> \o q
    ELSE <<Head(q)>> \o SortedInsert(st, Tail(q), id)

\* the matching ids in the store's natural order, which is the order of creation
RECURSIVE NaturalOrder(_, _)
NaturalOrder(ids, n) ==
    IF n = 0 THEN <<>>
    ELSE IF ObjectId(n) \in ids THEN Append(NaturalOrder(ids, n - 1), ObjectId(n))
    ELSE NaturalOrder(ids, n - 1)

RECURSIVE SortIds(_, _)
SortIds(st, q) ==
    IF q = <<>> THEN <<>>
    ELSE SortedInsert(st, SortIds(st, SubSeq(q, 1, Len(q) - 1)), q[Len(q)])

\* {$regex: q, $options: "i"} on title, description or an element of tech
Matches(doc, q) ==
    \/ Contains(ToLower(doc.title), ToLower(q))
    \/ Contains(ToLower(doc.description), ToLower(q))
    \/ \E i \in 1..Len(doc.tech) : Contains(ToLower(doc.tech[i]), ToLower(q))

\* Project.find(filter).sort(...): the ids of the matching documents, sorted
find(st, q, n) ==
    LET ids == {id \in DOMAIN st : q = <<>> \/ Matches(st[id], q)}
    IN  SortIds(st, NaturalOrder(ids, n))

\* ------------------------------------------------------------ bounds

\* update requests that may be between their lookup and their save
MaxPending == 2

\* ------------------------------------------------------------ state

VARIABLES
    store,      \* the Project collection: id -> document
    nextId,     \* identifiers handed out so far
    now,        \* the clock createdAt is read from
    pending,    \* slot -> the update request suspended between findById and save
    started,    \* requests received so far
    deleted,    \* ids whose delete request was answered with success
    last        \* the request answered most recently, and its response

vars == <<store, nextId, now, pending, started, deleted, last>>

Slots == 1..MaxPending

Request(authorization, id, body, file) ==
    [authorization |-> authorization, id |-> id, body |-> body, file |-> file,
     q |-> Undef]

NoRequest == Request(<<>>, <<>>, EmptyBody, NoFile)

Idle == [busy |-> FALSE, id |-> <<>>, raw |-> NoRequest, body |-> EmptyBody,
         file |-> NoFile, proj |-> NoDoc]

\* a response with what the handler did on its way: the violation list, the
\* sanitized body, the persistence calls made, and for an update the document
\* as looked up, as stored just before the save, and the paths assigned
Answer(seq, op, req, status, message, errors, body, calls) ==
    [seq |-> seq, op |-> op, req |-> req, status |-> status, message |-> message,
     errors |-> errors, body |-> body, calls |-> calls, result |-> <<>>,
     proj |-> NoDoc, prior |-> NoDoc, modified |-> {}, stale |-> FALSE]

Init ==
    /\ store = <<>>
    /\ nextId = 0
    /\ now = 0
    /\ pending = [s \in Slots |-> Idle]
    /\ started = 0
    /\ deleted = {}
    /\ last = Answer(0, "none", NoRequest, 0, "", <<>>, EmptyBody, <<>>)

Answered == last.seq + 1

\* ------------------------------------------------------------ POST /

\* the destructuring defaults of the create handler: they replace undefined only
Default(v, d) == IF v = Undef THEN d ELSE v

\* the document handed to Project.create, as the schema casts it
NewProject(body, file, createdAt) ==
    [title |-> JsString(body.title),
     description |-> JsString(body.description),
     tech |-> SchemaTech(Default(body.tech, Arr(<<>>))),
     githubUrl |-> JsString(Default(body.githubUrl, Str(<<>>))),
     demoUrl |-> JsString(Default(body.demoUrl, Str(<<>>))),
     featured |-> Default(body.featured, Bool(FALSE)).b,
     order |-> Default(body.order, Num(0)).n,
     coverImage |-> IF file.present THEN bufferToDataUrl(file) ELSE Null,
     createdAt |-> createdAt]

\* router.post("/", verifyToken, upload.single("image"), createRules, handler);
\* dt is the time elapsed since the previous creation
Post(req, dt) ==
    LET auth == verifyToken(req.authorization)
        up == upload(req.file)
        rules == createRules(req.body)
        val == handleValidation(rules.errors)
    IN  /\ started' = started + 1
        /\ UNCHANGED <<pending, deleted>>
        /\ IF auth.status # 0 THEN
               /\ last' = Answer(Answered, "post", req, auth.status, auth.message,
                                 <<>>, req.body, <<>>)
               /\ UNCHANGED <<store, nextId, now>>
           ELSE IF up \notin {"none", "ok"} THEN
               /\ last' = Answer(Answered, "post", req, errorHandler(up).status, up,
                                 <<>>, req.body, <<>>)
               /\ UNCHANGED <<store, nextId, now>>
           ELSE IF val.status # 0 THEN
               /\ last' = Answer(Answered, "post", req, val.status, val.message,
                                 rules.errors, rules.body, <<>>)
               /\ UNCHANGED <<store, nextId, now>>
           ELSE IF ~SchemaOrderOk(Default(rules.body.order, Num(0))) THEN
               /\ last' = Answer(Answered, "post", req,
                                 errorHandler("Project validation failed").status,
                                 "Project validation failed",
                                 rules.errors, rules.body, <<"create">>)
               /\ UNCHANGED <<store, nextId, now>>
           ELSE
               /\ now' = now + dt
               /\ store' = create(store, ObjectId(nextId + 1),
                                  NewProject(rules.body, req.file, now'))
               /\ nextId' = nextId + 1
               /\ last' = [Answer(Answered, "post", req, 201, "created", rules.errors,
                                  rules.body, <<"create">>)
                           EXCEPT !.result = <<ObjectId(nextId + 1)>>]

\* ------------------------------------------------------------ PUT /:id

\* the assignments without their presence and type guards: every path is written
AssignedAll(body, file) == BodyFields \cup {"coverImage"}

\* the assignments with the guard of order reduced to a presence test
AssignedAnyOrder(body, file) ==
    {f \in BodyFields :
        CASE f \in {"title", "description", "githubUrl", "demoUrl"} -> IsString(body[f])
          [] f = "tech" -> IsArray(body[f])
          [] f = "featured" -> IsBoolean(body[f])
          [] OTHER -> body[f] # Undef}
    \cup (IF file.present THEN {"coverImage"} ELSE {})

\* the paths the update handler assigns: a body field of the expected type,
\* and coverImage when a file was uploaded
Assigned(body, file) ==
    {f \in BodyFields :
        CASE f \in {"title", "description", "githubUrl", "demoUrl"} -> IsString(body[f])
          [] f = "tech" -> IsArray(body[f])
          [] f = "featured" -> IsBoolean(body[f])
          [] OTHER -> IsFiniteNumber(body[f])}
    \cup (IF file.present THEN {"coverImage"} ELSE {})

\* the document after the handler's assignments
Assign(proj, body, file) ==
    LET on == Assigned(body, file)
    IN  [title |-> IF "title" \in on THEN Trim(body.title.s) ELSE proj.title,
         description |-> IF "description" \in on THEN Trim(body.description.s)
                         ELSE proj.description,
         tech |-> IF "tech" \in on THEN SchemaTech(body.tech) ELSE proj.tech,
         githubUrl |-> IF "githubUrl" \in on THEN Trim(body.githubUrl.s)
                       ELSE proj.githubUrl,
         demoUrl |-> IF "demoUrl" \in on THEN Trim(body.demoUrl.s) ELSE proj.demoUrl,
         featured |-> IF "featured" \in on THEN body.featured.b ELSE proj.featured,
         order |-> IF "order" \in on THEN body.order.n ELSE proj.order,
         coverImage |-> IF "coverImage" \in on THEN bufferToDataUrl(file)
                        ELSE proj.coverImage,
         createdAt |-> proj.createdAt]

\* router.put("/:id", verifyToken, upload.single("image"), updateRules, handler)
\* up to the await of Project.findById
PutLookup(slot, req) ==
    LET auth == verifyToken(req.authorization)
        up == upload(req.file)
        rules == updateRules(req.id, req.body)
        val == handleValidation(rules.errors)
    IN  /\ ~pending[slot].busy
        /\ \A s \in Slots : s < slot => pending[s].busy
        /\ started' = started + 1
        /\ UNCHANGED <<store, nextId, now, deleted>>
        /\ IF auth.status # 0 THEN
               /\ last' = Answer(Answered, "put", req, auth.status, auth.message,
                                 <<>>, req.body, <<>>)
               /\ UNCHANGED pending
           ELSE IF up \notin {"none", "ok"} THEN
               /\ last' = Answer(Answered, "put", req, errorHandler(up).status, up,
                                 <<>>, req.body, <<>>)
               /\ UNCHANGED pending
           ELSE IF val.status # 0 THEN
               /\ last' = Answer(Answered, "put", req, val.status, val.message,
                                 rules.errors, rules.body, <<>>)
               /\ UNCHANGED pending
           ELSE IF ~Found(store, req.id) THEN
               /\ last' = Answer(Answered, "put", req, 404, "Projet introuvable",
                                 rules.errors, rules.body, <<"findById">>)
               /\ UNCHANGED pending
           ELSE
               /\ pending' = [pending EXCEPT ![slot] =
                                [busy |-> TRUE, id |-> req.id, raw |-> req,
                                 body |-> rules.body, file |-> req.file,
                                 proj |-> findById(store, req.id)]]
               /\ UNCHANGED last

\* the update handler from the assignments to the response: proj.save() and
\* res.json(saved), or the error handler when save() rejects because the
\* document is gone
PutSave(slot) ==
    LET ctx == pending[slot]
        on == Assigned(ctx.body, ctx.file)
        doc == Assign(ctx.proj, ctx.body, ctx.file)
        gone == ~Found(store, ctx.id)
    IN  /\ ctx.busy
        /\ pending' = [pending EXCEPT ![slot] = Idle]
        /\ store' = save(store, ctx.id, doc, on)
        /\ UNCHANGED <<nextId, now, started, deleted>>
        /\ last' = [Answer(Answered, "put", ctx.raw,
                             IF gone /\ on # {} THEN errorHandler("No document found").status
                             ELSE 200,
                             IF gone /\ on # {} THEN "No document found" ELSE "saved",
                             <<>>, ctx.body, <<"findById", "save">>)
                      EXCEPT !.proj = ctx.proj,
                             !.prior = findById(store, ctx.id),
                             !.modified = on,
                             !.stale = gone]

\* ------------------------------------------------------------ DELETE /:id

\* router.delete("/:id", [verifyToken, param("id").isMongoId()], handler)
Delete(req) ==
    LET auth == verifyToken(req.authorization)
        errors == IdChain(req.id)
        val == handleValidation(errors)
    IN  /\ started' = started + 1
        /\ UNCHANGED <<nextId, now, pending>>
        /\ IF auth.status # 0 THEN
               /\ last' = Answer(Answered, "delete", req, auth.status, auth.message,
                                 <<>>, req.body, <<>>)
               /\ UNCHANGED <<store, deleted>>
           ELSE IF val.status # 0 THEN
               /\ last' = Answer(Answered, "delete", req, val.status, val.message,
                                 errors, req.body, <<>>)
               /\ UNCHANGED <<store, deleted>>
           ELSE IF ~Found(store, req.id) THEN
               /\ last' = Answer(Answered, "delete", req, 404, "Projet introuvable",
                                 errors, req.body, <<"findByIdAndDelete">>)
               /\ UNCHANGED <<store, deleted>>
           ELSE
               /\ store' = findByIdAndDelete(store, req.id)
               /\ deleted' = deleted \cup {req.id}
               /\ last' = [Answer(Answered, "delete", req, 200, "ok", errors, req.body,
                                  <<"findByIdAndDelete">>)
                           EXCEPT !.result = <<req.id>>]

\* ------------------------------------------------------------ GET /:id

\* router.get("/:id", [param("id").isMongoId()], handler)
Get(req) ==
    LET errors == IdChain(req.id)
        val == handleValidation(errors)
    IN  /\ started' = started + 1
        /\ UNCHANGED <<store, nextId, now, pending, deleted>>
        /\ IF val.status # 0 THEN
               last' = Answer(Answered, "get", req, val.status, val.message, errors,
                              req.body, <<>>)
           ELSE IF ~Found(store, req.id) THEN
               last' = Answer(Answered, "get", req, 404, "Projet introuvable", errors,
                              req.body, <<"findById">>)
           ELSE
               last' = [Answer(Answered, "get", req, 200, "ok", errors, req.body,
                               <<"findById">>)
                        EXCEPT !.result = <<req.id>>]

\* ------------------------------------------------------------ GET /

\* (req.query.q || "").trim()
QueryText(q) == Trim(IF Truthy(q) THEN JsString(q) ELSE <<>>)

\* router.get("/", handler): the matching projects, sorted
List(q) ==
    /\ started' = started + 1
    /\ UNCHANGED <<store, nextId, now, pending, deleted>>
    /\ last' = [Answer(Answered, "list", [NoRequest EXCEPT !.q = q], 200, "ok",
                       <<>>, EmptyBody, <<"find">>)
                EXCEPT !.result = find(store, QueryText(q), nextId)]

\* ------------------------------------------------------------ inputs

Good == <<"B", "e", "a", "r", "e", "r", " ", "g", "o", "o", "d">>

\* no header, another scheme, an empty bearer token, a token jwt.verify rejects
BadHeaders == {<<>>, <<"B", "a", "s", "i", "c", " ", "g", "o", "o", "d">>, <<"B", "e", "a", "r", "e", "r", " ">>, <<"B", "e", "a", "r", "e", "r", " ", "b", "a", "d">>}

Png == File(<<"i", "m", "a", "g", "e", "/", "p", "n", "g">>, 3, <<77, 97, 110>>)

Jpg == File(<<"i", "m", "a", "g", "e", "/", "j", "p", "g">>, 1, <<255>>)

UpperPng == File(<<"i", "m", "a", "g", "e", "/", "P", "N", "G">>, 2, <<77, 97>>)

\* a WebP of exactly the size limit
WebpAtLimit == File(<<"i", "m", "a", "g", "e", "/", "w", "e", "b", "p">>, FileSizeLimit, <<0, 1, 2, 3>>)

Jpeg == File(<<"i", "m", "a", "g", "e", "/", "j", "p", "e", "g">>, 0, <<>>)

TextPlain == File(<<"t", "e", "x", "t", "/", "p", "l", "a", "i", "n">>, 3, <<77, 97, 110>>)

Gif == File(<<"i", "m", "a", "g", "e", "/", "g", "i", "f">>, 3, <<71, 73, 70>>)

\* a PNG one byte over the size limit
PngTooLarge == File(<<"i", "m", "a", "g", "e", "/", "p", "n", "g">>, FileSizeLimit + 1, <<77, 97, 110>>)

AcceptedFiles == {Png, Jpg, UpperPng, WebpAtLimit, Jpeg}

RejectedFiles == {TextPlain, Gif, PngTooLarge}

LongTitle == [i \in 1..(TitleMax + 1) |-> "t"]

LongDescription == [i \in 1..(DescriptionMax + 1) |-> "d"]

TitleValues == {Str(<<" ", "A", "b", " ">>), Str(<<"C", "d">>), Str(<<"A">>), Str(LongTitle), Num(7), Null}

DescriptionValues ==
    {Str(<<" ", "D", "e", "s", "c", "r", "i", "p", "t", "i", "o", "n", " ", "t", "w", "o", " ">>), Str(<<"t", "o", "o", " ", "s", "h", "o", "r", "t">>), Str(LongDescription), Bool(TRUE)}

TechValues ==
    {Str(<<>>), Str(<<"a", ",", " ", ",", "b">>), Arr(<<Str(<<"x", " ">>), Str(<<>>), Num(12)>>), Arr(<<>>),
     Num(5), Num(0), Null}

UrlValues == {Str(<<>>), Str(<<"h", "t", "t", "p", ":", "/", "/", "g", ".", "i", "o">>), Str(<<"n", "o", "p", "e">>), Num(5)}

FeaturedValues == {Str(<<"t", "r", "u", "e">>), Str(<<"f", "a", "l", "s", "e">>), Str(<<"b", "a", "n", "a", "n", "a">>), Bool(TRUE), Bool(FALSE)}

OrderValues == {Str(<<"2">>), Str(<<"a", "b", "c">>), Num(1), Str(<<" ", "7", "x">>)}

FieldValues(f) ==
    CASE f = "title" -> TitleValues
      [] f = "description" -> DescriptionValues
      [] f = "tech" -> TechValues
      [] f \in {"githubUrl", "demoUrl"} -> UrlValues
      [] f = "featured" -> FeaturedValues
      [] OTHER -> OrderValues

\* the bodies that differ from base in one field
Singles(base) ==
    UNION {{[base EXCEPT ![f] = v] : v \in FieldValues(f) \cup {Undef}} : f \in BodyFields}

CreateBase ==
    [EmptyBody EXCEPT !.title = Str(<<" ", "A", "b", " ">>), !.description = Str(<<"D", "e", "s", "c", "r", "i", "p", "t", "i", "o", "n", " ", "o", "n", "e">>)]

\* the identifiers a path may carry: one never assigned, the assigned ones, a
\* string of 23 hexadecimal characters and one that is not hexadecimal
Malformed == {[i \in 1..23 |-> "0"], <<"x", "y", "z">>}

Targets(n) == {ObjectId(k) : k \in 0..n} \cup Malformed

\* ------------------------------------------------------------ bounds

\* identifiers the store hands out
MaxProjects == 1

\* requests received over a behaviour
MaxRequests == 3

\* ------------------------------------------------------------ Spec: the gates
\* Every route, with each kind of Authorization header, valid and invalid
\* fields, accepted and rejected uploads, and known, unknown and malformed ids.

GateFiles == {NoFile, Png, TextPlain, PngTooLarge}

GateCreateBodies ==
    {CreateBase,
     [CreateBase EXCEPT !.title = Str(<<"A">>)],
     [CreateBase EXCEPT !.description = Undef],
     [CreateBase EXCEPT !.githubUrl = Str(<<"n", "o", "p", "e">>), !.title = Str(LongTitle)]}

GateUpdateBodies ==
    {EmptyBody,
     [EmptyBody EXCEPT !.title = Str(<<"C", "d">>)],
     [EmptyBody EXCEPT !.title = Str(<<"A">>), !.featured = Str(<<"t", "r", "u", "e">>)],
     [EmptyBody EXCEPT !.description = Str(<<"t", "o", "o", " ", "s", "h", "o", "r", "t">>)],
     [EmptyBody EXCEPT !.demoUrl = Str(<<"n", "o", "p", "e">>), !.order = Str(<<"2">>)]}

\* the requests of a route for the given ids and bodies: every header with a
\* valid and an invalid body, without and with an upload, and the accepted
\* header with every body and upload
GateRequests(ids, valid, invalid, bodies) ==
    {Request(a, id, b, f) : a \in BadHeaders, id \in ids, b \in {valid, invalid},
                            f \in {NoFile, TextPlain}}
    \cup {Request(Good, id, b, f) : id \in ids, b \in bodies, f \in GateFiles}

GatePostRequests ==
    GateRequests({<<>>}, CreateBase, [CreateBase EXCEPT !.title = Str(<<"A">>)],
                 GateCreateBodies)

GatePutRequests ==
    GateRequests(Targets(MaxProjects), [EmptyBody EXCEPT !.title = Str(<<"C", "d">>)],
                 [EmptyBody EXCEPT !.description = Str(<<"t", "o", "o", " ", "s", "h", "o", "r", "t">>)], GateUpdateBodies)

GateDeleteRequests ==
    {Request(a, id, EmptyBody, NoFile) : a \in BadHeaders \cup {Good},
                                         id \in Targets(MaxProjects)}

GatePost ==
    /\ started < MaxRequests
    /\ nextId < MaxProjects
    /\ \E req \in GatePostRequests : Post(req, 1)

GatePut ==
    /\ started < MaxRequests
    /\ \E req \in GatePutRequests : PutLookup(1, req)

GateSave == PutSave(1)

GateDelete ==
    /\ started < MaxRequests
    /\ \E req \in GateDeleteRequests : Delete(req)

GateGet ==
    /\ started < MaxRequests
    /\ \E id \in Targets(MaxProjects) : Get(Request(<<>>, id, EmptyBody, NoFile))

GateList ==
    /\ started < MaxRequests
    /\ \E q \in {Undef, Str(<<" ">>), Str(<<"a", "B">>)} : List(q)

Next == GatePost \/ GatePut \/ GateSave \/ GateDelete \/ GateGet \/ GateList

Spec == Init /\ [][Next]_vars

\* ------------------------------------------------------------ SpecFields
\* Authenticated creates and updates, one after the other, over every value
\* of every field and every upload.

\* requests received over a behaviour of SpecFields
MaxFieldRequests == 2

FieldFiles == AcceptedFiles \cup RejectedFiles

FieldPostRequests ==
    {Request(Good, <<>>, b, NoFile) :
        b \in {c \in Singles(CreateBase) : c.title = CreateBase.title
                                           /\ c.description = CreateBase.description}}
    \cup {Request(Good, <<>>, CreateBase, f) : f \in FieldFiles}
    \cup {Request(Good, <<>>, [CreateBase EXCEPT !.tech = Str(<<"a", ",", " ", ",", "b">>),
                                                 !.featured = Str(<<"t", "r", "u", "e">>),
                                                 !.order = Str(<<"2">>),
                                                 !.githubUrl = Str(<<"h", "t", "t", "p", ":", "/", "/", "g", ".", "i", "o">>)], Png)}

FieldPutBodies ==
    Singles(EmptyBody)
    \cup {[EmptyBody EXCEPT !.title = Str(<<"C", "d">>), !.featured = Str(<<"t", "r", "u", "e">>)],
          [EmptyBody EXCEPT !.featured = Str(<<"b", "a", "n", "a", "n", "a">>), !.order = Str(<<"a", "b", "c">>)],
          [EmptyBody EXCEPT !.tech = Num(5), !.order = Num(1)],
          [EmptyBody EXCEPT !.title = Str(<<"A">>), !.tech = Str(<<"a", ",", " ", ",", "b">>)]}

FieldPutRequests ==
    {Request(Good, ObjectId(k), b, NoFile) : k \in 1..MaxProjects, b \in FieldPutBodies}
    \cup {Request(Good, ObjectId(k), EmptyBody, f) : k \in 1..MaxProjects, f \in FieldFiles}
    \cup {Request(Good, ObjectId(k), [EmptyBody EXCEPT !.title = Str(<<"C", "d">>)], Jpg) :
            k \in 1..MaxProjects}

FieldPost ==
    /\ started < MaxFieldRequests
    /\ nextId < MaxProjects
    /\ \E req \in FieldPostRequests : Post(req, 1)

FieldPut ==
    /\ started < MaxFieldRequests
    /\ \E req \in FieldPutRequests : PutLookup(1, req)

FieldSave == PutSave(1)

NextFields == FieldPost \/ FieldPut \/ FieldSave

SpecFields == Init /\ [][NextFields]_vars

\* ------------------------------------------------------------ SpecRace
\* Updates of one project that overlap each other and a delete: each update
\* is suspended between its lookup and its save.

\* requests received over a behaviour of SpecRace
MaxRaceRequests == 4

RacePostRequests ==
    {Request(Good, <<>>, [CreateBase EXCEPT !.tech = Str(<<"a", ",", " ", ",", "b">>)], NoFile)}

RacePutBodies ==
    {EmptyBody,
     [EmptyBody EXCEPT !.title = Str(<<" ", "A", "b", " ">>)],
     [EmptyBody EXCEPT !.title = Str(<<"C", "d">>), !.order = Str(<<"2">>)],
     [EmptyBody EXCEPT !.title = Str(<<"E", "f">>), !.featured = Str(<<"t", "r", "u", "e">>)],
     [EmptyBody EXCEPT !.tech = Arr(<<Str(<<"x", " ">>)>>)]}

RacePutRequests ==
    {Request(Good, ObjectId(k), b, NoFile) : k \in 1..MaxProjects, b \in RacePutBodies}
    \cup {Request(Good, ObjectId(k), EmptyBody, Png) : k \in 1..MaxProjects}

RacePost ==
    /\ started < MaxRaceRequests
    /\ nextId < MaxProjects
    /\ \E req \in RacePostRequests : Post(req, 1)

RacePut ==
    /\ started < MaxRaceRequests
    /\ \E slot \in Slots : \E req \in RacePutRequests : PutLookup(slot, req)

RaceSave == \E slot \in Slots : PutSave(slot)

RaceDelete ==
    /\ started < MaxRaceRequests
    /\ \E k \in 1..MaxProjects : Delete(Request(Good, ObjectId(k), EmptyBody, NoFile))

RaceGet ==
    /\ started < MaxRaceRequests
    /\ \E k \in 1..MaxProjects : Get(Request(<<>>, ObjectId(k), EmptyBody, NoFile))

NextRace == RacePost \/ RacePut \/ RaceSave \/ RaceDelete \/ RaceGet

SpecRace == Init /\ [][NextRace]_vars

\* ------------------------------------------------------------ SpecSort
\* Projects that differ in featured, order and createdAt, created, updated
\* and deleted, and listed.

\* identifiers the store hands out in SpecSort
MaxSortProjects == 3

\* requests received over a behaviour of SpecSort
MaxSortRequests == 4

SortPostRequests ==
    {Request(Good, <<>>, [CreateBase EXCEPT !.featured = f, !.order = o], NoFile) :
        f \in {Undef, Str(<<"t", "r", "u", "e">>)}, o \in {Undef, Str(<<"2">>)}}

SortPutRequests ==
    {Request(Good, ObjectId(k), b, NoFile) :
        k \in 1..MaxSortProjects,
        b \in {[EmptyBody EXCEPT !.featured = Str(<<"f", "a", "l", "s", "e">>)],
               [EmptyBody EXCEPT !.order = Num(1)]}}

SortPost ==
    /\ started < MaxSortRequests
    /\ nextId < MaxSortProjects
    /\ \E req \in SortPostRequests : \E dt \in 0..1 : Post(req, dt)

SortPut ==
    /\ started < MaxSortRequests
    /\ \E req \in SortPutRequests : PutLookup(1, req)

SortSave == PutSave(1)

SortDelete ==
    /\ started < MaxSortRequests
    /\ \E k \in 1..MaxSortProjects : Delete(Request(Good, ObjectId(k), EmptyBody, NoFile))

SortList ==
    /\ started < MaxSortRequests
    /\ \E q \in {Undef, Str(<<" ">>), Str(<<"a", "B">>)} : List(q)

NextSort == SortPost \/ SortPut \/ SortSave \/ SortDelete \/ SortList

SpecSort == Init /\ [][NextSort]_vars

\* ------------------------------------------------------------ claims: the gates

\* the step answers a request
Answers == last'.seq = last.seq + 1

\* the header is "Bearer " followed by a token the verifier accepts
Authenticated(authorization) ==
    \E token \in ValidTokens : authorization = BearerPrefix \o token

Mutating == {"post", "put", "delete"}

\* C1: a create, update or delete request without a bearer token, or with a
\* token the verifier rejects, is answered 401, makes no persistence call and
\* leaves the store and the suspended updates as they were, whatever its body,
\* id and upload.
C1_Unauthorized ==
    [][(Answers /\ last'.op \in Mutating /\ ~Authenticated(last'.req.authorization))
        => (last'.status = 401 /\ last'.calls = <<>> /\ store' = store
            /\ pending' = pending)]_vars

\* an update of a stored project, with an upload and a rejected token, answered 401
C1_Witness ==
    /\ last.op = "put" /\ last.req.authorization = <<"B", "e", "a", "r", "e", "r", " ", "b", "a", "d">>
    /\ Found(store, last.req.id) /\ last.req.file.present
    /\ last.status = 401

\* the request's fields violate a rule: the trimmed title or description is
\* not a string of the required length, a non-empty URL is malformed, or the
\* path id of an update is malformed
TextViolation(v, min, max) == ~IsString(v) \/ Len(Trim(v.s)) < min \/ Len(Trim(v.s)) > max

UrlViolation(v) == Truthy(v) /\ ~isURL(ToStr(v))

FieldViolation(op, req) ==
    \/ (op = "post" \/ req.body.title # Undef)
       /\ TextViolation(req.body.title, TitleMin, TitleMax)
    \/ (op = "post" \/ req.body.description # Undef)
       /\ TextViolation(req.body.description, DescriptionMin, DescriptionMax)
    \/ UrlViolation(req.body.githubUrl)
    \/ UrlViolation(req.body.demoUrl)
    \/ op = "put" /\ ~isMongoId(req.id)

\* C2: an authenticated create or update whose upload is absent or accepted and
\* whose fields violate a rule yields a non-empty violation list, and every
\* create or update with a non-empty violation list is answered 400 without a
\* persistence call, the store and the suspended updates left as they were.
C2_InvalidRejected ==
    [][(Answers /\ last'.op \in {"post", "put"})
        => /\ (/\ Authenticated(last'.req.authorization)
               /\ upload(last'.req.file) \in {"none", "ok"}
               /\ FieldViolation(last'.op, last'.req))
              => last'.errors # <<>>
           /\ last'.errors # <<>>
              => (last'.status = 400 /\ last'.calls = <<>> /\ store' = store
                  /\ pending' = pending)]_vars

\* an authenticated update of a stored project with a too short description,
\* answered 400
C2_Witness ==
    /\ last.op = "put" /\ Authenticated(last.req.authorization)
    /\ Found(store, last.req.id)
    /\ last.req.body.description = Str(<<"t", "o", "o", " ", "s", "h", "o", "r", "t">>)
    /\ last.errors = <<"description">>
    /\ last.status = 400

\* the upload is of an unsupported content type or larger than 4 MiB
UploadUnsupported(file) ==
    /\ file.present
    /\ \/ ToLower(file.mimetype) \notin {<<"i", "m", "a", "g", "e", "/", "j", "p", "e", "g">>, <<"i", "m", "a", "g", "e", "/", "j", "p", "g">>, <<"i", "m", "a", "g", "e", "/", "p", "n", "g">>,
                                         <<"i", "m", "a", "g", "e", "/", "w", "e", "b", "p">>}
       \/ file.size > 4 * 1024 * 1024

\* C4: an authenticated create or update whose upload has an unsupported
\* content type or is larger than 4 MiB is answered 400, and creates or
\* modifies no record.
C4_UploadRejected ==
    [][(/\ Answers /\ last'.op \in {"post", "put"}
        /\ Authenticated(last'.req.authorization)
        /\ UploadUnsupported(last'.req.file))
        => (last'.status = 400 /\ store' = store)]_vars

\* ------------------------------------------------------------ claims: the fields

\* the step answers an update of a stored project with success
Updates == Answers /\ last'.op = "put" /\ last'.status = 200 /\ Found(store, last'.req.id)

\* C3: a successful update of a stored project leaves every body field that is
\* absent from the request as it was stored, leaves coverImage as it was when
\* no upload is attached, leaves the other projects alone, and no step changes
\* the createdAt of a stored id.
C3_UpdateFrame ==
    [][/\ Updates =>
            /\ DOMAIN store' = DOMAIN store
            /\ \A f \in BodyFields :
                 last'.req.body[f] = Undef
                    => store'[last'.req.id][f] = store[last'.req.id][f]
            /\ ~last'.req.file.present
                 => store'[last'.req.id].coverImage = store[last'.req.id].coverImage
            /\ \A id \in DOMAIN store \ {last'.req.id} : store'[id] = store[id]
       /\ \A id \in DOMAIN store \cap DOMAIN store' :
            store'[id].createdAt = store[id].createdAt]_vars

\* an update with the title alone of a project that has tech, featured, order
\* and a cover image: the title is new, the rest is as it was stored
C3_Witness ==
    /\ last.op = "put" /\ last.status = 200
    /\ last.req.body = [EmptyBody EXCEPT !.title = Str(<<"C", "d">>)]
    /\ ~last.req.file.present
    /\ Found(store, last.req.id)
    /\ last.prior.title = <<"A", "b">> /\ store[last.req.id].title = <<"C", "d">>
    /\ last.prior.tech = <<<<"a">>, <<"b">>>> /\ last.prior.featured /\ last.prior.order = 2
    /\ last.prior.coverImage # Null
    /\ store[last.req.id] = [last.prior EXCEPT !.title = <<"C", "d">>]

\* C7: no stored project has an empty string among its tech entries.
C7_TechNonEmpty ==
    \A id \in DOMAIN store : \A i \in 1..Len(store[id].tech) : store[id].tech[i] # <<>>

\* a string that is a decimal integer, with an optional sign
NumericString(s) ==
    LET d == IF s # <<>> /\ Head(s) \in {"-", "+"} THEN Tail(s) ELSE s
    IN  d # <<>> /\ \A i \in 1..Len(d) : IsDigit(d[i])

\* a string that parseInt reads a number from: blanks, an optional sign, a digit
LeadingInteger(s) ==
    LET t == TrimStart(s)
        d == IF t # <<>> /\ Head(t) \in {"-", "+"} THEN Tail(t) ELSE t
    IN  d # <<>> /\ IsDigit(Head(d))

\* the value is of the type the field expects, as a JSON value or as the text
\* of a form field
ExpectedType(f, v) ==
    CASE f \in {"title", "description", "githubUrl", "demoUrl"} -> IsString(v)
      [] f = "tech" -> IsArray(v) \/ IsString(v)
      [] f = "featured" ->
            IsBoolean(v) \/ (IsString(v) /\ ToLower(v.s) \in {<<"t", "r", "u", "e">>, <<"f", "a", "l", "s", "e">>})
      [] OTHER -> IsFiniteNumber(v) \/ (IsString(v) /\ NumericString(v.s))

\* the step answers an update of a stored project, with any status
AnswersUpdate == Answers /\ last'.op = "put" /\ Found(store, last'.req.id)

Unchanged(f) == store'[last'.req.id][f] = store[last'.req.id][f]

\* C8 as stated: on update, a present request value of the wrong type leaves
\* the stored value of its field unchanged, for every body field.
C8_WrongTypeIgnored ==
    [][AnswersUpdate =>
        \A f \in BodyFields :
            (last'.req.body[f] # Undef /\ ~ExpectedType(f, last'.req.body[f]))
                => Unchanged(f)]_vars

\* C8 amended: a title, description, githubUrl or demoUrl that is not a string,
\* and an order that is not an array and is neither a number nor a string with
\* a leading integer, leave the stored value unchanged; a present featured that
\* is not an array is stored by a successful update as the boolean toBoolean
\* makes of it (true unless its text is "", "0" or "false" in any letter case);
\* a tech that is neither an array nor a string empties the stored tech of a
\* successful update when it is truthy, and leaves it unchanged when it is
\* falsy.
C8_SanitizedTypeDecides ==
    [][AnswersUpdate =>
        LET body == last'.req.body
            doc == store'[last'.req.id]
        IN  /\ \A f \in {"title", "description", "githubUrl", "demoUrl"} :
                 (body[f] # Undef /\ ~IsString(body[f])) => Unchanged(f)
            /\ (/\ body.order # Undef /\ ~IsArray(body.order)
                /\ ~IsFiniteNumber(body.order)
                /\ ~(IsString(body.order) /\ LeadingInteger(body.order.s)))
                 => Unchanged("order")
            /\ (body.featured # Undef /\ ~IsArray(body.featured) /\ last'.status = 200)
                 => doc.featured = (ToLower(ToStr(body.featured))
                                      \notin {<<>>, <<"0">>, <<"f", "a", "l", "s", "e">>})
            /\ (body.tech # Undef /\ ~IsArray(body.tech) /\ ~IsString(body.tech))
                 => IF Truthy(body.tech) /\ last'.status = 200 THEN doc.tech = <<>>
                    ELSE Unchanged("tech")]_vars

\* an update with featured "banana" and order "abc" of a project stored with
\* featured false and order 2: featured is now true, order is still 2
C8_Witness ==
    /\ last.op = "put" /\ last.status = 200 /\ Found(store, last.req.id)
    /\ last.req.body.featured = Str(<<"b", "a", "n", "a", "n", "a">>)
    /\ last.req.body.order = Str(<<"a", "b", "c">>)
    /\ ~last.prior.featured /\ store[last.req.id].featured
    /\ last.prior.order = 2 /\ store[last.req.id].order = 2

\* the characters of a base64 payload
IsBase64(s) == \A i \in 1..Len(s) : s[i] = "=" \/ \E j \in 1..64 : B64[j] = s[i]

\* s is data:<mime>;base64,<payload> and <mime>, as given or in lower case,
\* is one of mimes
IsDataUrl(s, mimes, foldCase) ==
    /\ StartsWith(s, DataPrefix)
    /\ \E k \in (Len(DataPrefix) + 1)..Len(s) :
         /\ s[k] = ";"
         /\ \A j \in (Len(DataPrefix) + 1)..(k - 1) : s[j] # ";"
         /\ LET mime == SubSeq(s, Len(DataPrefix) + 1, k - 1)
                rest == SubSeq(s, k, Len(s))
            IN  /\ (IF foldCase THEN ToLower(mime) ELSE mime) \in mimes
                /\ StartsWith(rest, Base64Marker)
                /\ IsBase64(SubSeq(rest, Len(Base64Marker) + 1, Len(rest)))

\* C9 as stated: every stored coverImage is absent or a data URL whose MIME
\* type is image/jpeg, image/png or image/webp.
C9_CoverMimeListed ==
    \A id \in DOMAIN store :
        \/ store[id].coverImage = Null
        \/ /\ IsString(store[id].coverImage)
           /\ IsDataUrl(store[id].coverImage.s,
                        {<<"i", "m", "a", "g", "e", "/", "j", "p", "e", "g">>, <<"i", "m", "a", "g", "e", "/", "p", "n", "g">>, <<"i", "m", "a", "g", "e", "/", "w", "e", "b", "p">>}, FALSE)

\* C9 amended: every stored coverImage is absent or a data URL whose MIME type
\* is, in any letter case, image/jpeg, image/jpg, image/png or image/webp.
C9_CoverMimeFiltered ==
    \A id \in DOMAIN store :
        \/ store[id].coverImage = Null
        \/ /\ IsString(store[id].coverImage)
           /\ IsDataUrl(store[id].coverImage.s,
                        {<<"i", "m", "a", "g", "e", "/", "j", "p", "e", "g">>, <<"i", "m", "a", "g", "e", "/", "j", "p", "g">>, <<"i", "m", "a", "g", "e", "/", "p", "n", "g">>, <<"i", "m", "a", "g", "e", "/", "w", "e", "b", "p">>},
                        TRUE)

\* an update stored the data URL of an image/jpg upload
C9_Witness ==
    /\ last.op = "put" /\ last.status = 200 /\ Found(store, last.req.id)
    /\ last.req.file = Jpg
    /\ store[last.req.id].coverImage = Str(<<"d", "a", "t", "a", ":", "i", "m", "a", "g", "e", "/", "j", "p", "g", ";", "b", "a", "s", "e", "6", "4", ",", "/", "w", "=", "=">>)

\* ------------------------------------------------------------ claims: delete, races, list

\* C5: an id whose delete was answered with success is never stored again, and
\* every later get of it is answered 404, also when an update that looked the
\* project up before the delete saves after it.
C5_DeleteTerminal ==
    /\ \A id \in deleted : ~Found(store, id)
    /\ (last.op = "get" /\ last.req.id \in deleted) => last.status = 404

\* an update that assigned paths saved after its project was deleted
C5_Witness ==
    /\ last.op = "put" /\ last.stale /\ last.modified # {}
    /\ last.req.id \in deleted
    /\ last.proj # NoDoc

DocFields == BodyFields \cup {"coverImage"}

C6_ListSorted ==
    (last.op = "list" /\ Trim(ToStr(last.req.q)) = <<>>)
        => LET r == last.result
           IN  /\ {r[i] : i \in 1..Len(r)} = DOMAIN store
               /\ Len(r) = Cardinality(DOMAIN store)
               /\ \A i, j \in 1..Len(r) :
                    i < j =>
                        LET a == store[r[i]]
                            b == store[r[j]]
                        IN  /\ b.featured => a.featured
                            /\ a.featured = b.featured => a.order <= b.order
                            /\ (a.featured = b.featured /\ a.order = b.order)
                                 => a.createdAt >= b.createdAt

\* a list of three projects, one featured and two not, the two equal in order
\* and apart in createdAt
C6_Witness ==
    /\ last.op = "list" /\ last.req.q = Undef
    /\ Len(last.result) = 3
    /\ \E i, j \in 1..3 : store[last.result[i]].featured /\ ~store[last.result[j]].featured
    /\ \E i, j \in 1..3 :
         /\ i < j
         /\ store[last.result[i]].featured = store[last.result[j]].featured
         /\ store[last.result[i]].order = store[last.result[j]].order
         /\ store[last.result[i]].createdAt > store[last.result[j]].createdAt

====
